---- MODULE Spec2Model ----
(***************************************************************************)
(* Model of scripts/decg/cli.py (the decg workspace CLI): the sparse       *)
(* checkout applier, the init command with its profile resolver, and the   *)
(* docs diff command.                                                      *)
(*                                                                         *)
(* Strings that the code interpolates into shell command lines or joins    *)
(* into file contents are sequences of one-character strings, so that      *)
(* " ".join(...), the shell's word splitting and "\n".join(...) are        *)
(* computed and not assumed to be the identity.                            *)
(***************************************************************************)
EXTENDS Integers, Sequences, FiniteSets, TLC

VARIABLES
    pc,              \* position of the running command
    run,             \* number of the current invocation of init (1-based)
    prevOutcome,     \* how the previous invocation of init ended ("none" before the first)
    profileGiven,    \* init argument: --profile was passed
    fileDoc,         \* the profile file at the path load_sparse_profile resolves
    modules,         \* init argument: the --include list
    sparse_profile,  \* init local: the value load_sparse_profile returned
    idx,             \* init local: position of the loop over target_submodules
    hubBranch,       \* hub repository: which branches exist
    hubCurrent,      \* hub repository: the branch checked out
    subState,        \* per submodule path: absent / empty directory / repository
    subBranch,       \* per submodule repository: the service branch exists
    subCurrent,      \* per submodule repository: the branch checked out
    gitDir,          \* per submodule path: <path>/.git/info is a writable directory
    scaffold,        \* docs/ and releases/ scaffolding of this service and version
    cmds,            \* what the current invocation issued, in order
    exitCode,        \* exit code of the current invocation (-1 while running)
    config,          \* apply_sparse_checkout argument, when it is run on its own
    docsTree,        \* files below docs/<service>/
    docDirs,         \* version directories that exist below docs/<service>/
    diffArgs,        \* docs diff arguments v1, v2
    diffOut,         \* docs diff locals: files1, files2, added, removed, common
    cliCmd,          \* the dev / test / branch / release / version command invoked
    cliEnv,          \* what that command finds: files, tools, the external exit code
    hubWalk          \* get_hub_root: the directories above cwd and the loop variable

vars == <<pc, run, prevOutcome, profileGiven, fileDoc, modules, sparse_profile, idx,
          hubBranch, hubCurrent, subState, subBranch, subCurrent, gitDir, scaffold,
          cmds, exitCode, config, docsTree, docDirs, diffArgs, diffOut,
          cliCmd, cliEnv, hubWalk>>

diffVars == <<docsTree, docDirs, diffArgs, diffOut>>

cliVars == <<cliCmd, cliEnv, hubWalk>>

----------------------------------------------------------------------------
(* Bounds *)

\* longest include / exclude list handed to apply_sparse_checkout
MaxPaths == 2
\* longest --include list handed to init
MaxModules == 1
\* number of consecutive invocations of init with the same arguments
MaxRuns == 2
\* number of distinct Markdown file names in a documentation tree
MaxDocs == 3

----------------------------------------------------------------------------
(* Strings *)

\* "apps/x"
PApps == <<"a", "p", "p", "s", "/", "x">>
\* "lib"
PLib == <<"l", "i", "b">>
\* "my d": a directory name holding a blank
PBlank == <<"m", "y", " ", "d">>
\* "s/"
PSecrets == <<"s", "/">>

PathPool == {PApps, PLib, PBlank}

\* "packages/", the path apply_sparse_checkout always appends
PackagesPath == <<"p", "a", "c", "k", "a", "g", "e", "s", "/">>

\* "apps/", the prefix init filters out of --include
AppsPrefix == <<"a", "p", "p", "s", "/">>

\* "/*", the first line of the exclude-mode pattern file
AllPattern == <<"/", "*">>

\* sequences over S of length at most n
SeqsUpTo(S, n) == UNION {[1..k -> S] : k \in 0..n}

\* str.startswith
StartsWith(s, prefix) ==
    /\ Len(s) >= Len(prefix)
    /\ SubSeq(s, 1, Len(prefix)) = prefix

\* sep.join(parts)
RECURSIVE Join(_, _)
Join(parts, sep) ==
    IF parts = <<>> THEN <<>>
    ELSE IF Len(parts) = 1 THEN parts[1]
    ELSE parts[1] \o sep \o Join(Tail(parts), sep)

\* str.split(sep) for a one-character separator: the fields between separators
RECURSIVE SplitAcc(_, _, _)
SplitAcc(text, sep, cur) ==
    IF text = <<>> THEN <<cur>>
    ELSE IF Head(text) = sep THEN <<cur>> \o SplitAcc(Tail(text), sep, <<>>)
    ELSE SplitAcc(Tail(text), sep, Append(cur, Head(text)))

Split(text, sep) == SplitAcc(text, sep, <<>>)

\* the words the shell (subprocess.run(..., shell=True)) hands to the program:
\* the command line split at blanks, empty words dropped
ShellWords(text) == SelectSeq(Split(text, " "), LAMBDA w : w # <<>>)

\* the lines of a text file that ends with a newline
FileLines(text) ==
    LET fields == Split(text, "\n")
    IN  IF fields[Len(fields)] = <<>> THEN SubSeq(fields, 1, Len(fields) - 1) ELSE fields

----------------------------------------------------------------------------
(* Checkout scopes and apply_sparse_checkout *)

Scope(inc, exc) == [include |-> inc, exclude |-> exc]

\* the empty mapping {}
EmptyScope == Scope(<<>>, <<>>)

PathLists == SeqsUpTo(PathPool, MaxPaths)

Scopes == {Scope(i, e) : i \in PathLists, e \in PathLists}

\* one entry of the log: a git command run by run_shell in cwd, or a file written
Cmd(cwd, op, arg, text) == [cwd |-> cwd, op |-> op, arg |-> arg, text |-> text]

\* patterns = ["/*"] + ["!/" + path for path in exclude_paths]
RECURSIVE Negations(_)
Negations(exclude_paths) ==
    IF exclude_paths = <<>> THEN <<>>
    ELSE <<(<<"!", "/">> \o Head(exclude_paths))>> \o Negations(Tail(exclude_paths))

PatternsBaselineLast(exclude_paths) == Negations(exclude_paths) \o <<AllPattern>>

Patterns(exclude_paths) == <<AllPattern>> \o Negations(exclude_paths)

\* the interpolated part of f"git sparse-checkout set {paths} packages/"
SetArgsText(include_paths) == Join(include_paths, <<" ">>) \o <<" ">> \o PackagesPath

\* the text sparse_file.write_text receives
PatternFileText(exclude_paths) == Join(Patterns(exclude_paths), <<"\n">>) \o <<"\n">>

\* the include branch of apply_sparse_checkout
IncludeCmds(submodule, include_paths) ==
    << Cmd(submodule, "sparse-checkout init --cone", "", <<>>),
       Cmd(submodule, "sparse-checkout set", "", SetArgsText(include_paths)) >>

\* the exclude branch of apply_sparse_checkout; write_text raises when
\* <submodule>/.git/info is not a directory, and nothing after it runs
ExcludeCmds(submodule, exclude_paths, writeOk) ==
    << Cmd(submodule, "sparse-checkout init --no-cone", "", <<>>) >>
    \o (IF writeOk
        THEN << Cmd(submodule, "write sparse-checkout", "", PatternFileText(exclude_paths)),
                Cmd(submodule, "read-tree -mu HEAD", "", <<>>) >>
        ELSE <<>>)

\* typer.echo(f"  Sparse Checkout ...: {submodule_path.name}"), the first
\* statement of every call
EchoApply(submodule) == <<Cmd(submodule, "echo sparse checkout", "", <<>>)>>

\* apply_sparse_checkout(submodule_path, config): what it issues, and whether
\* it ended by an uncaught exception
ApplyExcludeFirst(submodule, cfg, writeOk) ==
    IF cfg.exclude # <<>>
    THEN [cmds |-> EchoApply(submodule) \o ExcludeCmds(submodule, cfg.exclude, writeOk),
          crashed |-> ~writeOk]
    ELSE IF cfg.include # <<>>
    THEN [cmds |-> EchoApply(submodule) \o IncludeCmds(submodule, cfg.include),
          crashed |-> FALSE]
    ELSE [cmds |-> EchoApply(submodule), crashed |-> FALSE]

apply_sparse_checkout(submodule, cfg, writeOk) ==
    IF cfg.include # <<>>
    THEN [cmds |-> EchoApply(submodule) \o IncludeCmds(submodule, cfg.include),
          crashed |-> FALSE]
    ELSE IF cfg.exclude # <<>>
    THEN [cmds |-> EchoApply(submodule) \o ExcludeCmds(submodule, cfg.exclude, writeOk),
          crashed |-> ~writeOk]
    ELSE [cmds |-> EchoApply(submodule), crashed |-> FALSE]

----------------------------------------------------------------------------
(* init: profile documents *)

\* all_submodules, in the insertion order the loop iterates
all_submodules == <<"decg-fe-monorepo", "decg-be-monorepo", "decg-go-monorepo">>

KnownSubmodules == {all_submodules[i] : i \in 1..Len(all_submodules)}

\* the value of one key below "submodules:", or the absence of that key
Entry(listed, scope) == [listed |-> listed, scope |-> scope]

Unlisted == Entry(FALSE, EmptyScope)

EntryPool ==
    { Unlisted,
      Entry(TRUE, EmptyScope),
      Entry(TRUE, Scope(<<PLib>>, <<>>)),
      Entry(TRUE, Scope(<<>>, <<PSecrets>>)) }

\* a profile file: missing, an empty YAML document, or a mapping with or
\* without the top-level "submodules" key
Doc(kind, hasSubmodules, submodules) ==
    [kind |-> kind, hasSubmodules |-> hasSubmodules, submodules |-> submodules]

NoSubmodules == [n \in KnownSubmodules |-> Unlisted]

NoFile == Doc("nofile", FALSE, NoSubmodules)

ProfileFiles ==
    { NoFile, Doc("null", FALSE, NoSubmodules), Doc("map", FALSE, NoSubmodules) }
    \cup { Doc("map", TRUE, s) : s \in [KnownSubmodules -> EntryPool] }

\* a per-submodule value that is no mapping (null, a list, a string): it has
\* no include or exclude entries and no .get
NotAMapping == [include |-> <<>>, exclude |-> <<>>, mapping |-> FALSE]

\* isinstance(scope, dict)
IsMapping(scope) == "mapping" \notin DOMAIN scope

\* malformed profile files: text that is no YAML; a "submodules:" key whose
\* value is null; a submodule key whose value is no mapping
MalformedFiles ==
    { Doc("unparsable", FALSE, NoSubmodules), Doc("badmap", TRUE, NoSubmodules) }
    \cup { Doc("map", TRUE, s) :
              s \in { t \in [KnownSubmodules ->
                               {Unlisted, Entry(TRUE, Scope(<<PLib>>, <<>>)),
                                Entry(TRUE, NotAMapping)}] :
                        \E n \in KnownSubmodules : ~IsMapping(t[n].scope) } }

\* yaml.safe_load raises yaml.YAMLError
YamlError(file) == file.kind = "unparsable"

\* Python's None
None == Doc("none", FALSE, NoSubmodules)

ModuleLists == SeqsUpTo({PApps, PLib}, MaxModules)

\* load_sparse_profile: the parsed document when the resolved path exists, else
\* None. profile_path only selects which path is resolved; file is the file there.
load_sparse_profile(profile_path, file) ==
    IF file.kind = "nofile" THEN None
    ELSE IF file.kind = "null" THEN None
    ELSE file

\* sparse_profile and "submodules" in sparse_profile
HasSubmodulesKey(profile) == profile.kind \in {"map", "badmap"} /\ profile.hasSubmodules

\* name in sparse_profile["submodules"] raises TypeError: the value is null
SubmodulesNotIterable(profile) == HasSubmodulesKey(profile) /\ profile.kind = "badmap"

\* target_submodules
target_all(profile) == all_submodules

target_listed_only(profile) ==
    SelectSeq(all_submodules, LAMBDA n : profile.submodules[n].listed)

target_submodules(profile) ==
    IF HasSubmodulesKey(profile)
    THEN SelectSeq(all_submodules, LAMBDA n : profile.submodules[n].listed)
    ELSE all_submodules

FilterModulesReversed(mods) ==
    LET kept == SelectSeq(mods, LAMBDA m : ~StartsWith(m, AppsPrefix)) IN
    [i \in 1..Len(kept) |-> kept[Len(kept) + 1 - i]]

\* [m for m in modules if not m.startswith("apps/")]
FilterModules(mods) == SelectSeq(mods, LAMBDA m : ~StartsWith(m, AppsPrefix))

\* checkout_config of one loop iteration
checkout_config_profile_only(profile, mods, name) ==
    IF HasSubmodulesKey(profile) /\ profile.submodules[name].listed
    THEN profile.submodules[name].scope
    ELSE EmptyScope

checkout_config(profile, mods, name) ==
    IF HasSubmodulesKey(profile)
    THEN (IF profile.submodules[name].listed
          THEN profile.submodules[name].scope
          ELSE EmptyScope)
    ELSE IF mods # <<>>
    THEN Scope(FilterModules(mods), <<>>)
    ELSE EmptyScope

\* checkout_config.get("include") or checkout_config.get("exclude")
AppliesAlways(cfg) == TRUE

Applies(cfg) == cfg.include # <<>> \/ cfg.exclude # <<>>

----------------------------------------------------------------------------
(* init: the environment it runs in *)

\* a fact about the file system or a repository that no invocation has looked
\* at yet is "unknown"; the step that first reads it finds one of the values
Discover(known, values) == IF known = "unknown" THEN values ELSE {known}

PathStates == {"absent", "empty", "repo"}

BranchStates == {"absent", "present"}

GitDirStates == {"dir", "file"}

\* non-zero return codes of a failing git command
FailCodes == {1, 128}

\* git rev-parse --verify <branch>, then git checkout [-b] <branch>
BranchCmdsAlwaysCreate(cwd, branch, exists) ==
    << Cmd(cwd, "rev-parse --verify", branch, <<>>),
       Cmd(cwd, "checkout -b", branch, <<>>) >>

BranchCmds(cwd, branch, exists) ==
    << Cmd(cwd, "rev-parse --verify", branch, <<>>),
       IF exists THEN Cmd(cwd, "checkout", branch, <<>>)
       ELSE Cmd(cwd, "checkout -b", branch, <<>>) >>

\* git checkout -b fails when the branch exists; git checkout fails when it does not
BranchCmdsFail(cmdSeq, exists) ==
    \/ cmdSeq[2].op = "checkout -b" /\ exists
    \/ cmdSeq[2].op = "checkout" /\ ~exists

\* the entries of the log that are git commands (the others are file writes and
\* the applier's echo)
IsGit(c) == c.op \notin {"write sparse-checkout", "write release files", "echo sparse checkout"}

----------------------------------------------------------------------------
(* init *)

InitInit ==
    /\ pc = "start"
    /\ run = 1
    /\ prevOutcome = "none"
    /\ profileGiven \in BOOLEAN
    /\ fileDoc \in ProfileFiles \cup MalformedFiles
    /\ modules \in ModuleLists
    /\ sparse_profile = None
    /\ idx = 0
    /\ hubBranch = [b \in {"workspace", "develop"} |-> "unknown"]
    /\ hubCurrent = "other"
    /\ subState = [n \in KnownSubmodules |-> "unknown"]
    /\ subBranch = [n \in KnownSubmodules |-> "unknown"]
    /\ subCurrent = [n \in KnownSubmodules |-> "other"]
    /\ gitDir = [n \in KnownSubmodules |-> "unknown"]
    /\ scaffold = "unknown"
    /\ cmds = <<>>
    /\ exitCode = -1

IdleApply == config = EmptyScope

IdleDiff ==
    /\ docsTree = {}
    /\ docDirs = {}
    /\ diffArgs = <<"v1", "v1">>
    /\ diffOut = [files1 |-> {}, files2 |-> {}, added |-> {}, removed |-> {}, common |-> {}]

\* no other command is running, and init found the hub root
\* what a command finds around it: the hub root marker above the current
\* directory, the compose file, the gh executable, docs/<service>, and the
\* submodule directories that exist
Env(root, compose, gh, path, subs) ==
    [root |-> root, compose |-> compose, gh |-> gh, path |-> path, subs |-> subs]

IdleCli ==
    /\ cliCmd = "init"
    /\ cliEnv = Env(TRUE, TRUE, TRUE, TRUE, KnownSubmodules)
    /\ hubWalk = [cwd |-> 1, markers |-> {1}, current |-> 1, result |-> 1]

Init == InitInit /\ IdleApply /\ IdleDiff /\ IdleCli

\* lines 170-181: load the profile
Start ==
    /\ pc = "start"
    /\ IF YamlError(fileDoc)
       THEN \* the exception leaves load_sparse_profile and init_workspace
            /\ pc' = "malformed"
            /\ exitCode' = 1
            /\ UNCHANGED sparse_profile
       ELSE /\ sparse_profile' = load_sparse_profile(profileGiven, fileDoc)
            /\ pc' = "hub"
            /\ UNCHANGED exitCode
    /\ UNCHANGED <<run, prevOutcome, profileGiven, fileDoc, modules, idx, hubBranch,
                   hubCurrent, subState, subBranch, subCurrent, gitDir, scaffold, cmds,
                   config, diffVars, cliVars>>

\* lines 183-218: hub branch, then the choice of target_submodules
HubBranch ==
    /\ pc = "hub"
    /\ \E ws \in Discover(hubBranch["workspace"], BranchStates), rc \in FailCodes :
         LET issued == BranchCmds("hub", "workspace", ws = "present")
         IN  /\ cmds' = cmds \o issued
             /\ IF BranchCmdsFail(issued, ws = "present")
                THEN /\ pc' = "exit"
                     /\ exitCode' = rc
                     /\ hubBranch' = [hubBranch EXCEPT !["workspace"] = ws]
                     /\ UNCHANGED <<hubCurrent, idx>>
                ELSE IF SubmodulesNotIterable(sparse_profile)
                THEN \* line 209 raises after the hub branch was checked out
                     /\ hubBranch' = [hubBranch EXCEPT !["workspace"] = "present"]
                     /\ hubCurrent' = "workspace"
                     /\ pc' = "malformed"
                     /\ exitCode' = 1
                     /\ UNCHANGED idx
                ELSE /\ hubBranch' = [hubBranch EXCEPT !["workspace"] = "present"]
                     /\ hubCurrent' = "workspace"
                     /\ idx' = 1
                     /\ pc' = IF target_submodules(sparse_profile) = <<>>
                              THEN "scaffold" ELSE "subs"
                     /\ UNCHANGED exitCode
    /\ UNCHANGED <<run, prevOutcome, profileGiven, fileDoc, modules, sparse_profile,
                   subState, subBranch, subCurrent, gitDir, scaffold, config, diffVars, cliVars>>

\* lines 220-248: one iteration of the loop over target_submodules
SubmoduleStep ==
    /\ pc = "subs"
    /\ LET name == target_submodules(sparse_profile)[idx]
           cfg == checkout_config(sparse_profile, modules, name)
       IN  \E st \in Discover(subState[name], PathStates), updateOk \in BOOLEAN,
              rc \in FailCodes :
             LET \* if not submodule_path.exists(): git submodule update --init
                 needUpdate == st = "absent"
                 updCmds == IF needUpdate
                            THEN <<Cmd("hub", "submodule update --init --depth 1", name, <<>>)>>
                            ELSE <<>>
                 stNow == IF needUpdate /\ updateOk THEN "repo" ELSE st
                 \* an empty directory is no repository of its own: git run there
                 \* acts on the enclosing hub repository
                 inHub == stNow = "empty"
                 writes == Applies(cfg) /\ cfg.include = <<>>
             IN  \E gd \in (IF writes /\ stNow = "repo"
                            THEN Discover(gitDir[name], GitDirStates) ELSE {gitDir[name]}),
                    br \in Discover(IF inHub THEN hubBranch["develop"] ELSE subBranch[name],
                                    BranchStates) :
                   LET applied == IF Applies(cfg)
                                  THEN apply_sparse_checkout(name, cfg, gd = "dir")
                                  ELSE [cmds |-> <<>>, crashed |-> FALSE]
                       branchCmds == BranchCmds(name, "develop", br = "present")
                   IN  IF needUpdate /\ ~updateOk
                       THEN \* run_shell(check=True) raises typer.Exit(returncode)
                            /\ cmds' = cmds \o updCmds
                            /\ subState' = [subState EXCEPT ![name] = st]
                            /\ pc' = "exit"
                            /\ exitCode' = rc
                            /\ UNCHANGED <<idx, hubBranch, hubCurrent, subBranch,
                                           subCurrent, gitDir>>
                       ELSE IF ~IsMapping(cfg)
                       THEN \* line 238: checkout_config.get raises AttributeError
                            /\ cmds' = cmds \o updCmds
                            /\ subState' = [subState EXCEPT ![name] = stNow]
                            /\ pc' = "malformed"
                            /\ exitCode' = 1
                            /\ UNCHANGED <<idx, hubBranch, hubCurrent, subBranch,
                                           subCurrent, gitDir>>
                       ELSE IF applied.crashed
                       THEN \* write_text raised: the traceback ends the process
                            /\ cmds' = cmds \o updCmds \o applied.cmds
                            /\ subState' = [subState EXCEPT ![name] = stNow]
                            /\ gitDir' = [gitDir EXCEPT ![name] = gd]
                            /\ pc' = "crashed"
                            /\ exitCode' = 1
                            /\ UNCHANGED <<idx, hubBranch, hubCurrent, subBranch,
                                           subCurrent>>
                       ELSE IF BranchCmdsFail(branchCmds, br = "present")
                       THEN /\ cmds' = cmds \o updCmds \o applied.cmds \o branchCmds
                            /\ subState' = [subState EXCEPT ![name] = stNow]
                            /\ gitDir' = [gitDir EXCEPT ![name] = gd]
                            /\ IF inHub
                               THEN /\ hubBranch' = [hubBranch EXCEPT !["develop"] = br]
                                    /\ UNCHANGED subBranch
                               ELSE /\ subBranch' = [subBranch EXCEPT ![name] = br]
                                    /\ UNCHANGED hubBranch
                            /\ pc' = "exit"
                            /\ exitCode' = rc
                            /\ UNCHANGED <<idx, hubCurrent, subCurrent>>
                       ELSE /\ cmds' = cmds \o updCmds \o applied.cmds \o branchCmds
                            /\ subState' = [subState EXCEPT ![name] = stNow]
                            /\ gitDir' = [gitDir EXCEPT ![name] = gd]
                            /\ IF inHub
                               THEN /\ hubBranch' = [hubBranch EXCEPT !["develop"] = "present"]
                                    /\ hubCurrent' = "develop"
                                    /\ UNCHANGED <<subBranch, subCurrent>>
                               ELSE /\ subBranch' = [subBranch EXCEPT ![name] = "present"]
                                    /\ subCurrent' = [subCurrent EXCEPT ![name] = "develop"]
                                    /\ UNCHANGED <<hubBranch, hubCurrent>>
                            /\ idx' = idx + 1
                            /\ pc' = IF idx = Len(target_submodules(sparse_profile))
                                     THEN "scaffold" ELSE "subs"
                            /\ UNCHANGED exitCode
    /\ UNCHANGED <<run, prevOutcome, profileGiven, fileDoc, modules, sparse_profile,
                   scaffold, config, diffVars, cliVars>>

\* lines 252-298: docs/ and releases/ scaffolding (mkdir with exist_ok, release
\* files written only where missing), the docker hint, the closing messages
Scaffold ==
    /\ pc = "scaffold"
    /\ \E sc \in Discover(scaffold, {"absent", "present"}) :
         /\ cmds' = IF sc = "absent"
                    THEN Append(cmds, Cmd("hub", "write release files", "", <<>>))
                    ELSE cmds
         /\ scaffold' = "present"
    /\ pc' = "done"
    /\ exitCode' = 0
    /\ UNCHANGED <<run, prevOutcome, profileGiven, fileDoc, modules, sparse_profile, idx,
                   hubBranch, hubCurrent, subState, subBranch, subCurrent, gitDir,
                   config, diffVars, cliVars>>

\* the operator runs init again with the same arguments
Rerun ==
    /\ pc \in {"done", "exit", "crashed", "malformed"}
    /\ run < MaxRuns
    /\ run' = run + 1
    /\ prevOutcome' = pc
    /\ pc' = "start"
    /\ sparse_profile' = None
    /\ idx' = 0
    /\ cmds' = <<>>
    /\ exitCode' = -1
    /\ UNCHANGED <<profileGiven, fileDoc, modules, hubBranch, hubCurrent, subState,
                   subBranch, subCurrent, gitDir, scaffold, config, diffVars, cliVars>>

Next == Start \/ HubBranch \/ SubmoduleStep \/ Scaffold \/ Rerun

Spec == Init /\ [][Next]_vars

----------------------------------------------------------------------------
(* apply_sparse_checkout on its own, for every scope *)

IdleInit ==
    /\ run = 1
    /\ prevOutcome = "none"
    /\ profileGiven = FALSE
    /\ fileDoc = NoFile
    /\ modules = <<>>
    /\ sparse_profile = None
    /\ idx = 0
    /\ hubBranch = [b \in {"workspace", "develop"} |-> "unknown"]
    /\ hubCurrent = "other"
    /\ subState = [n \in KnownSubmodules |-> "unknown"]
    /\ subBranch = [n \in KnownSubmodules |-> "unknown"]
    /\ subCurrent = [n \in KnownSubmodules |-> "other"]
    /\ gitDir = [n \in KnownSubmodules |-> "unknown"]
    /\ scaffold = "unknown"
    /\ exitCode = -1

InitApply ==
    /\ pc = "apply"
    /\ config \in Scopes
    /\ cmds = <<>>
    /\ IdleInit
    /\ IdleDiff
    /\ IdleCli

\* one call apply_sparse_checkout(apps/decg-fe-monorepo, config)
ApplyCall ==
    /\ pc = "apply"
    /\ \E gd \in Discover(gitDir[all_submodules[1]], GitDirStates) :
         LET applied == apply_sparse_checkout(all_submodules[1], config, gd = "dir")
         IN  /\ cmds' = applied.cmds
             /\ pc' = IF applied.crashed THEN "crashed" ELSE "applied"
             /\ exitCode' = IF applied.crashed THEN 1 ELSE exitCode
             /\ gitDir' = IF config.include = <<>> /\ config.exclude # <<>>
                          THEN [gitDir EXCEPT ![all_submodules[1]] = gd]
                          ELSE gitDir
    /\ UNCHANGED <<run, prevOutcome, profileGiven, fileDoc, modules, sparse_profile, idx,
                   hubBranch, hubCurrent, subState, subBranch, subCurrent, scaffold,
                   config, diffVars, cliVars>>

NextApply == ApplyCall

SpecApply == InitApply /\ [][NextApply]_vars

----------------------------------------------------------------------------
(* docs diff *)

Versions == {"v1", "v2"}

\* a file below docs/<service>/<dir>/; name stands for its path below <dir>
DocFile(dir, name, ext) == [dir |-> dir, name |-> name, ext |-> ext]

DocFiles ==
    {DocFile(v, n, "md") : v \in Versions, n \in 1..MaxDocs}
    \cup {DocFile(v, 1, "txt") : v \in Versions}

\* path.rglob("*.md")
rglob_md(tree, path) == {f \in tree : f.dir = path /\ f.ext = "md"}

\* f.relative_to(path)
relative_to(f, path) == [name |-> f.name, ext |-> f.ext]

\* lines 800-805
DiffSetsSwapped(tree, path1, path2) ==
    LET files1 == {relative_to(f, path1) : f \in rglob_md(tree, path1)}
        files2 == {relative_to(f, path2) : f \in rglob_md(tree, path2)}
    IN  [files1 |-> files1, files2 |-> files2,
         added |-> files1 \ files2,
         removed |-> files2 \ files1,
         common |-> files1 \cap files2]

DiffSets(tree, path1, path2) ==
    LET files1 == {relative_to(f, path1) : f \in rglob_md(tree, path1)}
        files2 == {relative_to(f, path2) : f \in rglob_md(tree, path2)}
    IN  [files1 |-> files1, files2 |-> files2,
         added |-> files2 \ files1,
         removed |-> files1 \ files2,
         common |-> files1 \cap files2]

InitDiff ==
    /\ pc = "diff"
    /\ docsTree \in SUBSET DocFiles
    /\ docDirs \in SUBSET Versions
    /\ {f.dir : f \in docsTree} \subseteq docDirs
    /\ diffArgs \in Versions \X Versions
    /\ diffOut = [files1 |-> {}, files2 |-> {}, added |-> {}, removed |-> {}, common |-> {}]
    /\ cmds = <<>>
    /\ IdleInit
    /\ IdleApply
    /\ IdleCli

\* docs_diff(service, v1, v2)
docs_diff ==
    /\ pc = "diff"
    /\ IF diffArgs[1] \notin docDirs \/ diffArgs[2] \notin docDirs
       THEN /\ pc' = "exit"
            /\ exitCode' = 1
            /\ UNCHANGED diffOut
       ELSE /\ diffOut' = DiffSets(docsTree, diffArgs[1], diffArgs[2])
            /\ pc' = "diffed"
            /\ exitCode' = 0
    /\ UNCHANGED <<run, prevOutcome, profileGiven, fileDoc, modules, sparse_profile, idx,
                   hubBranch, hubCurrent, subState, subBranch, subCurrent, gitDir,
                   scaffold, cmds, config, docsTree, docDirs, diffArgs, cliVars>>

NextDiff == docs_diff

SpecDiff == InitDiff /\ [][NextDiff]_vars

----------------------------------------------------------------------------
(* Properties *)

Ops(log) == {log[i].op : i \in 1..Len(log)}

\* the entries of the log issued in the working directory of one submodule
InCwd(log, name) == SelectSeq(log, LAMBDA c : c.cwd = name)

Applied == pc \in {"applied", "crashed"}

\* C1: a scope with a non-empty include list is applied in INCLUDE mode
\* whatever its exclude list holds: the cone-mode init and the set command are
\* issued; the non-cone init, the pattern file and read-tree never are.
C1_IncludeTakesPrecedence ==
    (Applied /\ config.include # <<>>) =>
        /\ "sparse-checkout init --cone" \in Ops(cmds)
        /\ "sparse-checkout set" \in Ops(cmds)
        /\ "sparse-checkout init --no-cone" \notin Ops(cmds)
        /\ "write sparse-checkout" \notin Ops(cmds)
        /\ "read-tree -mu HEAD" \notin Ops(cmds)

C1_Witness ==
    /\ pc = "applied"
    /\ config.include # <<>>
    /\ config.exclude # <<>>
    /\ "sparse-checkout set" \in Ops(cmds)

\* C2: a scope with no include entries and exclude list e1..en is applied in
\* EXCLUDE mode: the non-cone init is issued and no cone-mode command is; the
\* pattern file written has exactly n+1 lines, "/*" and then "!/ei" in the
\* order given; read-tree is issued only after the file is written.
C2_ExcludePatterns ==
    (Applied /\ config.include = <<>> /\ config.exclude # <<>>) =>
        /\ "sparse-checkout init --no-cone" \in Ops(cmds)
        /\ "sparse-checkout init --cone" \notin Ops(cmds)
        /\ "sparse-checkout set" \notin Ops(cmds)
        /\ pc = "applied" => "write sparse-checkout" \in Ops(cmds)
        /\ \A i \in 1..Len(cmds) :
             /\ cmds[i].op = "write sparse-checkout" =>
                  LET lines == FileLines(cmds[i].text)
                  IN  /\ Len(lines) = Len(config.exclude) + 1
                      /\ lines[1] = <<"/", "*">>
                      /\ \A k \in 1..Len(config.exclude) :
                           lines[k + 1] = <<"!", "/">> \o config.exclude[k]
             /\ cmds[i].op = "read-tree -mu HEAD" =>
                  \E j \in 1..(i - 1) : cmds[j].op = "write sparse-checkout"

C2_Witness ==
    /\ pc = "applied"
    /\ config.include = <<>>
    /\ Len(config.exclude) = 2
    /\ config.exclude[1] # config.exclude[2]
    /\ "read-tree -mu HEAD" \in Ops(cmds)

\* the scope init resolves for a submodule, read off the arguments and the
\* loaded profile: neither include nor exclude entries
ResolvedScopeEmpty(name) ==
    IF sparse_profile.kind = "map" /\ sparse_profile.hasSubmodules
    THEN /\ sparse_profile.submodules[name].scope.include = <<>>
         /\ sparse_profile.submodules[name].scope.exclude = <<>>
    ELSE \A i \in 1..Len(modules) : StartsWith(modules[i], AppsPrefix)

\* C3: during init, for a submodule whose resolved scope has neither include
\* nor exclude entries, apply_sparse_checkout is not invoked: no sparse-checkout
\* command is issued in it and no pattern file is written for it.
C3_EmptyScopeNotApplied ==
    \A name \in KnownSubmodules :
        (pc # "start" /\ ResolvedScopeEmpty(name)) =>
            \A i \in 1..Len(cmds) :
                cmds[i].cwd = name =>
                    cmds[i].op \in {"rev-parse --verify", "checkout", "checkout -b"}

C3_Witness ==
    /\ pc = "done"
    /\ \E name \in KnownSubmodules :
         /\ ResolvedScopeEmpty(name)
         /\ InCwd(cmds, name) # <<>>
    /\ \E other \in KnownSubmodules :
         /\ ~ResolvedScopeEmpty(other)
         /\ "sparse-checkout set" \in Ops(InCwd(cmds, other))

\* C4 as claimed: in INCLUDE mode the paths the sparse-checkout set command
\* receives are exactly the include paths, in order, followed by packages/.
C4_SetReceivesIncludePaths ==
    (Applied /\ config.include # <<>>) =>
        \A i \in 1..Len(cmds) :
            cmds[i].op = "sparse-checkout set" =>
                ShellWords(cmds[i].text) = config.include \o <<PackagesPath>>

\* C5 as claimed: init with an explicit --profile path that does not exist
\* fails before any git command is issued.
C5_MissingExplicitProfileFailsFast ==
    (profileGiven /\ fileDoc.kind = "nofile") =>
        /\ \A i \in 1..Len(cmds) : ~IsGit(cmds[i])
        /\ pc \notin {"hub", "subs", "scaffold", "done"}

\* a loop iteration ran for the submodule: its branch was verified in its directory
Processed(name) == "rev-parse --verify" \in Ops(InCwd(cmds, name))

\* the submodule was left a full checkout: nothing but the branch commands was
\* issued in its directory
FullCheckout(name) ==
    \A i \in 1..Len(cmds) :
        cmds[i].cwd = name => cmds[i].op \in {"rev-parse --verify", "checkout", "checkout -b"}

\* INCLUDE-mode sparse checkout with the given paths was applied in the
\* submodule's directory, and no EXCLUDE-mode step was
IncludeApplied(name, paths) ==
    /\ \E i \in 1..Len(cmds) :
         /\ cmds[i].cwd = name
         /\ cmds[i].op = "sparse-checkout set"
         /\ cmds[i].text = Join(paths, <<" ">>) \o <<" ">> \o PackagesPath
    /\ {"sparse-checkout init --no-cone", "write sparse-checkout", "read-tree -mu HEAD"}
         \cap Ops(InCwd(cmds, name)) = {}

\* the --include paths that do not start with apps/
KeptModules ==
    SelectSeq(modules, LAMBDA m : Len(m) < 5 \/ SubSeq(m, 1, 5) # <<"a", "p", "p", "s", "/">>)

\* init stopped on a failing git command that run_shell checks
StoppedByGit ==
    /\ cmds # <<>>
    /\ cmds[Len(cmds)].op \in {"submodule update --init --depth 1", "checkout", "checkout -b"}

\* C6: without --profile and without the conventional profile file,
\* load_sparse_profile returns None without error and init goes on: all three
\* known submodules are targets, with the --include list applied when one was
\* given (its paths outside apps/), and a full checkout otherwise.
C6_NoProfileFallsBack ==
    (~profileGiven /\ fileDoc.kind = "nofile" /\ pc # "start") =>
        /\ sparse_profile = None
        /\ pc \in {"exit", "crashed"} => StoppedByGit
        /\ pc = "done" =>
             \A name \in KnownSubmodules :
                 /\ Processed(name)
                 /\ IF KeptModules # <<>>
                    THEN IncludeApplied(name, KeptModules)
                    ELSE FullCheckout(name)

C6_Witness ==
    /\ ~profileGiven
    /\ fileDoc.kind = "nofile"
    /\ pc = "done"
    /\ KeptModules # <<>>
    /\ \A name \in KnownSubmodules : IncludeApplied(name, KeptModules)

\* the profile file on disk has a submodules mapping
FileHasSubmodules == fileDoc.kind = "map" /\ fileDoc.hasSubmodules

\* the known submodules that are no key of the submodules mapping
UnlistedSubmodules == {n \in KnownSubmodules : ~fileDoc.submodules[n].listed}

\* C7 as claimed: with a profile that has a submodules mapping, a known
\* submodule that is no key of the mapping is still initialized and put on the
\* service branch, as a full checkout.
C7_UnlistedStillProcessed ==
    (FileHasSubmodules /\ pc = "done") =>
        \A name \in UnlistedSubmodules : Processed(name) /\ FullCheckout(name)

\* C7 as amended: with a profile that has a submodules mapping, a known
\* submodule that is no key of the mapping is skipped: init issues no command
\* in it or for it, and never looks at or changes it; the listed ones are the
\* ones the loop processes.
C7_UnlistedSkipped ==
    FileHasSubmodules =>
        /\ \A name \in UnlistedSubmodules :
             /\ \A i \in 1..Len(cmds) : cmds[i].cwd # name /\ cmds[i].arg # name
             /\ subState[name] = "unknown"
             /\ subBranch[name] = "unknown"
             /\ subCurrent[name] = "other"
             /\ gitDir[name] = "unknown"
        /\ pc = "done" => \A name \in KnownSubmodules \ UnlistedSubmodules : Processed(name)

C7_Witness ==
    /\ FileHasSubmodules
    /\ pc = "done"
    /\ UnlistedSubmodules # {}
    /\ \E name \in KnownSubmodules \ UnlistedSubmodules : Processed(name)

\* the profile file on disk parses to a document without a submodules key
FileWithoutSubmodulesKey == fileDoc.kind \in {"null", "map"} /\ ~fileDoc.hasSubmodules

\* C8 as claimed: with a profile document that has no top-level submodules
\* key, all three known submodules are processed and each is left a full
\* checkout, whatever the other options are, --include among them.
C8_NoKeyAlwaysFull ==
    (fileDoc.kind = "map" /\ ~fileDoc.hasSubmodules /\ pc = "done") =>
        \A name \in KnownSubmodules : Processed(name) /\ FullCheckout(name)

\* C8 as amended: with a profile document that has no top-level submodules
\* key, all three known submodules are processed; each is left a full checkout
\* unless --include names a path outside apps/, and then INCLUDE-mode sparse
\* checkout with those paths is applied to every one of them.
C8_NoKeyFullUnlessInclude ==
    (FileWithoutSubmodulesKey /\ pc = "done") =>
        \A name \in KnownSubmodules :
            /\ Processed(name)
            /\ IF KeptModules # <<>>
               THEN IncludeApplied(name, KeptModules)
               ELSE FullCheckout(name)

C8_Witness ==
    /\ fileDoc.kind = "map"
    /\ ~fileDoc.hasSubmodules
    /\ pc = "done"
    /\ KeptModules # <<>>
    /\ \A name \in KnownSubmodules : IncludeApplied(name, KeptModules)

\* C9: a second init with the same arguments, after a run that completed,
\* does not fail: the hub branch and every target submodule branch exist, a
\* plain checkout is issued for each and never a branch-creating one, and the
\* scaffolding step passes over the paths that exist without writing them again.
C9_RerunIdempotent ==
    prevOutcome = "done" =>
        /\ pc \notin {"exit", "crashed", "malformed"}
        /\ "checkout -b" \notin Ops(cmds)
        /\ "write release files" \notin Ops(cmds)
        /\ pc \notin {"start", "hub"} => "checkout" \in Ops(InCwd(cmds, "hub"))
        /\ pc = "done" =>
             /\ exitCode = 0
             /\ \A i \in 1..Len(cmds) :
                  cmds[i].op = "rev-parse --verify" =>
                      /\ i < Len(cmds)
                      /\ cmds[i + 1].op = "checkout"
                      /\ cmds[i + 1].cwd = cmds[i].cwd

C9_Witness ==
    /\ prevOutcome = "done"
    /\ run = 2
    /\ pc = "done"
    /\ \E name \in KnownSubmodules : "checkout" \in Ops(InCwd(cmds, name))

\* C10: docs diff yields added = files2 \ files1, removed = files1 \ files2 and
\* common = files1 /\ files2 over the version-relative Markdown paths of the two
\* trees; the three sets are pairwise disjoint and cover files1 \/ files2.
MdBelow(v) == {[name |-> f.name, ext |-> "md"] : f \in {g \in docsTree : g.dir = v /\ g.ext = "md"}}

C10_DocsDiffSets ==
    pc = "diffed" =>
        LET f1 == MdBelow(diffArgs[1])
            f2 == MdBelow(diffArgs[2])
        IN  /\ \A r \in f1 \cup f2 :
                 /\ r \in diffOut.added <=> (r \in f2 /\ r \notin f1)
                 /\ r \in diffOut.removed <=> (r \in f1 /\ r \notin f2)
                 /\ r \in diffOut.common <=> (r \in f1 /\ r \in f2)
            /\ diffOut.added \cap diffOut.removed = {}
            /\ diffOut.added \cap diffOut.common = {}
            /\ diffOut.removed \cap diffOut.common = {}
            /\ diffOut.added \cup diffOut.removed \cup diffOut.common = f1 \cup f2

\* the example of the specification: {a.md, b.md} against {b.md, c.md}
C10_Witness ==
    /\ pc = "diffed"
    /\ diffArgs = <<"v1", "v2">>
    /\ MdBelow("v1") = {[name |-> 1, ext |-> "md"], [name |-> 2, ext |-> "md"]}
    /\ MdBelow("v2") = {[name |-> 2, ext |-> "md"], [name |-> 3, ext |-> "md"]}
    /\ diffOut.added = {[name |-> 3, ext |-> "md"]}
    /\ diffOut.removed = {[name |-> 1, ext |-> "md"]}
    /\ diffOut.common = {[name |-> 2, ext |-> "md"]}

----------------------------------------------------------------------------
(* Properties of the init loop under failures *)

Targets == target_submodules(sparse_profile)

Ended == pc \in {"done", "exit", "crashed", "malformed"}

\* applying sparse checkout in the submodule failed: the call was entered and
\* the run ended inside it (write_text raised; the git commands of the call run
\* with check=False and their return codes change nothing)
SparseFailedIn(name) ==
    /\ pc = "crashed"
    /\ cmds # <<>>
    /\ cmds[Len(cmds)].cwd = name
    /\ cmds[Len(cmds)].op \in {"echo sparse checkout", "sparse-checkout init --no-cone"}

\* C11 as claimed: a failure while applying sparse checkout to one submodule
\* does not abort the loop: that submodule's branch step and every remaining
\* target submodule are still processed.
C11_SparseFailureNonFatal ==
    \A i \in 1..Len(Targets) :
        SparseFailedIn(Targets[i]) =>
            \A j \in i..Len(Targets) : Processed(Targets[j])

\* C14 as claimed: a run that ends with a malformed-document error has
\* applied nothing: no hub branch was verified, created or checked out and no
\* submodule was initialized, sparse-configured or switched to a branch.
C14_MalformedNoPartialApplication ==
    pc = "malformed" =>
        \A i \in 1..Len(cmds) : ~IsGit(cmds[i])

----------------------------------------------------------------------------
(* get_hub_root *)

\* deepest current directory: directories are named by their depth below the
\* filesystem root, which is 0
MaxDepth == 3

\* current.parent: the filesystem root is its own parent
Parent(d) == IF d = 0 THEN 0 ELSE d - 1

\* while current != current.parent
LoopContinuesAtRoot(current) == TRUE

LoopContinues(current) == current # Parent(current)

InitRoot ==
    /\ pc = "walk"
    /\ \E cwd \in 0..MaxDepth, markers \in SUBSET (0..MaxDepth) :
         hubWalk = [cwd |-> cwd, markers |-> markers, current |-> cwd, result |-> -1]
    /\ cliCmd = "get_hub_root"
    /\ cliEnv = Env(TRUE, TRUE, TRUE, TRUE, KnownSubmodules)
    /\ cmds = <<>>
    /\ IdleInit
    /\ IdleApply
    /\ IdleDiff

rootFrame == <<run, prevOutcome, profileGiven, fileDoc, modules, sparse_profile, idx,
               hubBranch, hubCurrent, subState, subBranch, subCurrent, gitDir, scaffold,
               cmds, config, diffVars, cliCmd, cliEnv>>

\* lines 52-53: the marker is in current
WalkFound ==
    /\ pc = "walk"
    /\ LoopContinues(hubWalk.current)
    /\ hubWalk.current \in hubWalk.markers
    /\ hubWalk' = [hubWalk EXCEPT !.result = hubWalk.current]
    /\ pc' = "found"
    /\ UNCHANGED <<exitCode, rootFrame>>

\* line 54: current = current.parent
WalkUp ==
    /\ pc = "walk"
    /\ LoopContinues(hubWalk.current)
    /\ hubWalk.current \notin hubWalk.markers
    /\ hubWalk' = [hubWalk EXCEPT !.current = Parent(hubWalk.current)]
    /\ UNCHANGED <<pc, exitCode, rootFrame>>

\* lines 55-56: the loop ended at the filesystem root
WalkFail ==
    /\ pc = "walk"
    /\ ~LoopContinues(hubWalk.current)
    /\ pc' = "exit"
    /\ exitCode' = 1
    /\ UNCHANGED <<hubWalk, rootFrame>>

NextRoot == WalkFound \/ WalkUp \/ WalkFail

SpecRoot == InitRoot /\ [][NextRoot]_vars

\* C15: get_hub_root returns the nearest directory, cwd or an ancestor below
\* the filesystem root, that holds .gitmodules; when none of them holds it the
\* walk ends at the filesystem root, which is not examined, and the command
\* exits with code 1.
C15_NearestMarkedDirectory ==
    /\ pc = "walk" =>
         /\ hubWalk.current \in 0..hubWalk.cwd
         /\ \A d \in (hubWalk.current + 1)..hubWalk.cwd : d \notin hubWalk.markers
    /\ pc = "found" =>
         /\ hubWalk.result \in 1..hubWalk.cwd
         /\ hubWalk.result \in hubWalk.markers
         /\ \A d \in (hubWalk.result + 1)..hubWalk.cwd : d \notin hubWalk.markers
    /\ pc = "exit" =>
         /\ exitCode = 1
         /\ hubWalk.current = 0
         /\ \A d \in 1..hubWalk.cwd : d \notin hubWalk.markers
    /\ (pc \in {"found", "exit"}) \/ ENABLED NextRoot

C15_Witness ==
    /\ pc = "found"
    /\ hubWalk.cwd = 3
    /\ hubWalk.result = 1
    /\ 0 \in hubWalk.markers

C15_WitnessExit ==
    /\ pc = "exit"
    /\ hubWalk.cwd = 2
    /\ hubWalk.markers = {0}

----------------------------------------------------------------------------
(* the dev, test, branch, release and list commands *)

Commands ==
    { "dev start", "dev stop", "dev logs", "dev status", "dev rebuild",
      "test unit", "test e2e", "test all", "test coverage",
      "branch create", "branch sync", "branch pr",
      "release changelog", "release tag", "release publish",
      "version list", "docs list" }

\* exit codes of the external tools
ExitCodes == {0, 1, 2}

\* docker-compose -f <file> fails when the file does not exist
DockerCodes(env) == IF env.compose THEN ExitCodes ELSE ExitCodes \ {0}

\* which gh
WhichGh(env) == IF env.gh THEN 0 ELSE 1

\* one external command: run through run_shell (with its check argument) or
\* through os.system, in cwd, with the return code the tool gave
Call(via, check, cwd, tool, returncode) ==
    [via |-> via, check |-> check, cwd |-> cwd, tool |-> tool, returncode |-> returncode]

\* run_shell, lines 63-65: if check and result.returncode != 0: raise typer.Exit
Raises(call) == call.via = "run_shell" /\ call.check /\ call.returncode # 0

\* the calls of a handler that run: those up to the first one that raises
RECURSIVE Executed(_)
Executed(calls) ==
    IF calls = <<>> THEN <<>>
    ELSE IF Raises(Head(calls)) THEN <<Head(calls)>>
    ELSE <<Head(calls)>> \o Executed(Tail(calls))

\* for submodule in [...]: if submodule_path.exists(): run_shell(tool, cwd=submodule_path)
RECURSIVE ForExisting(_, _, _, _, _)
ForExisting(names, subs, check, tool, rcs) ==
    IF names = <<>> THEN <<>>
    ELSE (IF Head(names) \in subs
          THEN <<Call("run_shell", check, Head(names), tool, rcs[Head(names)])>>
          ELSE <<>>)
         \o ForExisting(Tail(names), subs, check, tool, rcs)

be_path == "decg-be-monorepo"

repo_map == [fe |-> "decg-fe-monorepo", be |-> "decg-be-monorepo", go |-> "decg-go-monorepo"]

\* target_repos = repos or ["fe", "be"]
target_repos(repos) == IF repos = <<>> THEN <<"fe", "be">> ELSE repos

\* the --repo values tried
RepoOptions == { <<>>, <<"go">>, <<"qa", "fe">> }

\* keys not in repo_map are skipped with a warning
RECURSIVE MappedRepos(_)
MappedRepos(keys) ==
    IF keys = <<>> THEN <<>>
    ELSE (IF Head(keys) \in DOMAIN repo_map THEN <<repo_map[Head(keys)]>> ELSE <<>>)
         \o MappedRepos(Tail(keys))

InitCli ==
    /\ pc = "cli"
    /\ cliCmd \in Commands
    /\ cliEnv \in { Env(root, compose, gh, path, subs) :
                      root \in BOOLEAN, compose \in BOOLEAN, gh \in BOOLEAN,
                      path \in BOOLEAN, subs \in SUBSET KnownSubmodules }
    /\ hubWalk = [cwd |-> 1, markers |-> {1}, current |-> 1, result |-> 1]
    /\ cmds = <<>>
    /\ IdleInit
    /\ IdleApply
    /\ IdleDiff

cliFrame == <<run, prevOutcome, profileGiven, fileDoc, modules, sparse_profile, idx,
              hubBranch, hubCurrent, subState, subBranch, subCurrent, gitDir, scaffold,
              config, diffVars, cliVars>>

\* raise typer.Exit(1) after the calls made so far
Exit1(calls) ==
    /\ cmds' = calls
    /\ pc' = "exit"
    /\ exitCode' = 1

\* the handler issues the calls in order; it ends with the return code of the
\* call that raised, or returns and the process exits with 0
Return(calls) ==
    LET done == Executed(calls) IN
    /\ cmds' = done
    /\ IF done # <<>> /\ Raises(done[Len(done)])
       THEN pc' = "exit" /\ exitCode' = done[Len(done)].returncode
       ELSE pc' = "done" /\ exitCode' = 0

\* the command line names the handler
Entered(name) == pc = "cli" /\ cliCmd = name

\* hub_root = get_hub_root(): exits with 1 when no marker is found
FromHubRoot(body) == IF ~cliEnv.root THEN Exit1(<<>>) ELSE body

\* lines 417-452
dev_start ==
    /\ Entered("dev start")
    /\ FromHubRoot(
           IF ~cliEnv.compose THEN Exit1(<<>>)
           ELSE \E rc \in DockerCodes(cliEnv) :
                  Return(<<Call("run_shell", TRUE, "hub", "docker-compose up", rc)>>))
    /\ UNCHANGED cliFrame

\* lines 455-467
dev_stop ==
    /\ Entered("dev stop")
    /\ FromHubRoot(
           IF ~cliEnv.compose THEN Exit1(<<>>)
           ELSE \E rc \in DockerCodes(cliEnv) :
                  Return(<<Call("run_shell", TRUE, "hub", "docker-compose down", rc)>>))
    /\ UNCHANGED cliFrame

\* lines 470-487: no test of the compose file; os.system's result is dropped
dev_logs ==
    /\ Entered("dev logs")
    /\ FromHubRoot(
           \E rc \in DockerCodes(cliEnv) :
             Return(<<Call("os.system", FALSE, "hub", "docker-compose logs", rc)>>))
    /\ UNCHANGED cliFrame

\* lines 490-501: a missing compose file is a warning and a plain return
dev_status ==
    /\ Entered("dev status")
    /\ FromHubRoot(
           IF ~cliEnv.compose THEN Return(<<>>)
           ELSE \E rc \in DockerCodes(cliEnv) :
                  Return(<<Call("os.system", FALSE, "hub", "docker-compose ps", rc)>>))
    /\ UNCHANGED cliFrame

\* lines 504-519: no test of the compose file
dev_rebuild ==
    /\ Entered("dev rebuild")
    /\ FromHubRoot(
           \E rc \in DockerCodes(cliEnv) :
             Return(<<Call("run_shell", TRUE, "hub", "docker-compose up --build", rc)>>))
    /\ UNCHANGED cliFrame

\* if be_path.exists(): run_shell(cmd, cwd=be_path, check=False)
Pytest(tool) ==
    IF be_path \notin cliEnv.subs THEN Return(<<>>)
    ELSE \E rc \in ExitCodes : Return(<<Call("run_shell", FALSE, be_path, tool, rc)>>)

\* lines 648-668
test_unit ==
    /\ Entered("test unit")
    /\ FromHubRoot(
           Pytest("pytest tests/unit/"))
    /\ UNCHANGED cliFrame

\* lines 671-686
test_e2e ==
    /\ Entered("test e2e")
    /\ FromHubRoot(
           Pytest("pytest tests/e2e/"))
    /\ UNCHANGED cliFrame

\* lines 689-704
test_all ==
    /\ Entered("test all")
    /\ FromHubRoot(
           Pytest("pytest"))
    /\ UNCHANGED cliFrame

\* lines 707-716
test_coverage ==
    /\ Entered("test coverage")
    /\ FromHubRoot(
           Pytest("pytest --cov"))
    /\ UNCHANGED cliFrame

\* lines 529-573
branch_create ==
    /\ Entered("branch create")
    /\ FromHubRoot(
           \E repos \in RepoOptions, rcs \in [KnownSubmodules -> ExitCodes] :
             Return(ForExisting(MappedRepos(target_repos(repos)), cliEnv.subs, TRUE,
                                "git checkout -b", rcs)))
    /\ UNCHANGED cliFrame

\* lines 597-610
branch_sync ==
    /\ Entered("branch sync")
    /\ FromHubRoot(
           \E rcs \in [KnownSubmodules -> ExitCodes] :
             Return(ForExisting(all_submodules, cliEnv.subs, FALSE, "git pull --rebase", rcs)))
    /\ UNCHANGED cliFrame

\* lines 613-639
branch_pr ==
    /\ Entered("branch pr")
    /\ FromHubRoot(
           LET which == Call("run_shell", FALSE, "hub", "which gh", WhichGh(cliEnv)) IN
           IF which.returncode # 0 THEN Exit1(<<which>>)
           ELSE \E rc \in ExitCodes :
                  Return(<<which, Call("os.system", FALSE, "hub", "gh pr create", rc)>>))
    /\ UNCHANGED cliFrame

\* lines 882-931
release_changelog ==
    /\ Entered("release changelog")
    /\ FromHubRoot(
           \E rc \in ExitCodes :
             Return(<<Call("run_shell", FALSE, "hub", "git log", rc)>>))
    /\ UNCHANGED cliFrame

\* lines 934-952
release_tag ==
    /\ Entered("release tag")
    /\ FromHubRoot(
           \E confirm \in BOOLEAN, rcTag \in ExitCodes, rcPush \in ExitCodes :
             Return(<<Call("run_shell", TRUE, "hub", "git tag -a", rcTag)>>
                    \o (IF confirm
                        THEN <<Call("run_shell", TRUE, "hub", "git push origin", rcPush)>>
                        ELSE <<>>)))
    /\ UNCHANGED cliFrame

\* lines 955-984
release_publish ==
    /\ Entered("release publish")
    /\ FromHubRoot(
           LET which == Call("run_shell", FALSE, "hub", "which gh", WhichGh(cliEnv)) IN
           IF which.returncode # 0 THEN Exit1(<<which>>)
           ELSE \E rc \in ExitCodes :
                  Return(<<which, Call("run_shell", TRUE, "hub", "gh release create", rc)>>))
    /\ UNCHANGED cliFrame

\* lines 372-390
version_list ==
    /\ Entered("version list")
    /\ FromHubRoot(
           IF ~cliEnv.path THEN Exit1(<<>>) ELSE Return(<<>>))
    /\ UNCHANGED cliFrame

\* lines 762-779
docs_list ==
    /\ Entered("docs list")
    /\ FromHubRoot(
           IF ~cliEnv.path THEN Exit1(<<>>) ELSE Return(<<>>))
    /\ UNCHANGED cliFrame

NextCli ==
    \/ dev_start \/ dev_stop \/ dev_logs \/ dev_status \/ dev_rebuild
    \/ test_unit \/ test_e2e \/ test_all \/ test_coverage
    \/ branch_create \/ branch_sync \/ branch_pr
    \/ release_changelog \/ release_tag \/ release_publish
    \/ version_list \/ docs_list

SpecCli == InitCli /\ [][NextCli]_vars

DevCommands == {"dev start", "dev stop", "dev logs", "dev status", "dev rebuild"}

\* C12: a command that meets a precondition failure (no root marker, no
\* compose file, no gh executable, no version path) exits with code 1; in
\* particular every dev subcommand exits with 1 when the compose file is missing.
C12_PreconditionFailureExitsOne ==
    (pc \in {"done", "exit"}) =>
        /\ ~cliEnv.root => exitCode = 1
        /\ (cliCmd \in DevCommands /\ ~cliEnv.compose) => exitCode = 1
        /\ (cliCmd \in {"branch pr", "release publish"} /\ ~cliEnv.gh) => exitCode = 1
        /\ (cliCmd \in {"version list", "docs list"} /\ ~cliEnv.path) => exitCode = 1

\* C13: whenever an external command run by a CLI command exits non-zero, the
\* CLI command exits with that code, whichever command it is.
C13_ExternalFailurePropagated ==
    (pc \in {"done", "exit"}) =>
        \A i \in 1..Len(cmds) :
            cmds[i].returncode # 0 => exitCode = cmds[i].returncode

----------------------------------------------------------------------------
(* init with --include lists of several paths and no profile *)

\* a second path below apps/
PAppsY == <<"a", "p", "p", "s", "/", "y">>

IncludeLists == SeqsUpTo({PApps, PAppsY, PLib, PBlank}, MaxPaths) \ {<<>>}

InitInclude ==
    /\ pc = "start"
    /\ run = 1
    /\ prevOutcome = "none"
    /\ profileGiven \in BOOLEAN
    /\ fileDoc = NoFile
    /\ modules \in IncludeLists
    /\ sparse_profile = None
    /\ idx = 0
    /\ hubBranch = [b \in {"workspace", "develop"} |-> "unknown"]
    /\ hubCurrent = "other"
    /\ subState = [n \in KnownSubmodules |-> "unknown"]
    /\ subBranch = [n \in KnownSubmodules |-> "unknown"]
    /\ subCurrent = [n \in KnownSubmodules |-> "other"]
    /\ gitDir = [n \in KnownSubmodules |-> "unknown"]
    /\ scaffold = "unknown"
    /\ cmds = <<>>
    /\ exitCode = -1
    /\ IdleApply
    /\ IdleDiff
    /\ IdleCli

SpecInclude == InitInclude /\ [][Next]_vars

\* the paths of a list that do not start with apps/, in the order given
RECURSIVE OutsideApps(_)
OutsideApps(paths) ==
    IF paths = <<>> THEN <<>>
    ELSE (IF Len(Head(paths)) >= 5 /\ SubSeq(Head(paths), 1, 5) = <<"a", "p", "p", "s", "/">>
          THEN <<>> ELSE <<Head(paths)>>)
         \o OutsideApps(Tail(paths))

C16_WitnessAllApps ==
    /\ pc = "done"
    /\ modules = <<PApps, PAppsY>>
    /\ \A name \in KnownSubmodules : Processed(name) /\ FullCheckout(name)

----------------------------------------------------------------------------
(* branches after init *)

\* the checkout commands issued in one repository's directory
Checkouts(cwd) ==
    SelectSeq(cmds, LAMBDA c : c.cwd = cwd /\ c.op \in {"checkout", "checkout -b"})

\* C17: whenever init ends successfully the hub is on the workspace branch and
\* every target submodule is on its develop branch, and in each repository
\* exactly one checkout was issued: the plain one or the branch-creating one.
C17_BranchesAfterInit ==
    pc = "done" =>
        /\ hubCurrent = "workspace"
        /\ Len(Checkouts("hub")) = 1
        /\ \A i \in 1..Len(Targets) :
             /\ subCurrent[Targets[i]] = "develop"
             /\ Len(Checkouts(Targets[i])) = 1

====
